---- MODULE Spec2Model ----
(***************************************************************************)
(* A model of backend/app.py, the WHOIS lookup relay.                      *)
(*                                                                         *)
(* Python values are tagged records [t, v]:                                *)
(*   t = "null" (None), "bool", "int", "str", "list", "dict".              *)
(* A Python str is a sequence of one-character strings, so that strip,     *)
(* lower, split, slicing and len are computed, not assumed.                *)
(* A dict is a TLA+ record; a key is present iff it is in its DOMAIN.      *)
(***************************************************************************)
EXTENDS Integers, Sequences, FiniteSets, TLC

VARIABLES
    record,     \* normalizer: the raw WHOIS record handed to an extractor
    npc,        \* normalizer: which function has been applied ("input" = none)
    out,        \* normalizer: what that function returned
    env,        \* process configuration: os.environ and MYSQL_AVAILABLE
    pc,         \* "boot" (run as __main__, init_db pending), "serving", "crashed"
    tableExists,\* whether whois_lookups exists in the database
    table,      \* the rows of whois_lookups
    served,     \* requests handled so far
    req,        \* the request last handled: its JSON body and query parameters
    upstream,   \* what the provider did with that request's call, if it was called
    result      \* what whois_lookup did: response, log_lookup calls, rows inserted

nvars == <<record, npc, out>>
ovars == <<env, pc, tableExists, table, served, req, upstream, result>>
vars == <<record, npc, out, env, pc, tableExists, table, served, req, upstream, result>>

----------------------------------------------------------------------------
(* Python values *)

JNull == [t |-> "null", v |-> 0]
JBool(b) == [t |-> "bool", v |-> b]
JInt(n) == [t |-> "int", v |-> n]
JStr(s) == [t |-> "str", v |-> s]
JList(l) == [t |-> "list", v |-> l]
JDict(d) == [t |-> "dict", v |-> d]
EmptyDict == JDict(<<>>)
EmptyStr == JStr(<<>>)

\* bool(x): Python truthiness
Truthy(x) ==
    CASE x.t = "null" -> FALSE
      [] x.t = "bool" -> x.v
      [] x.t = "int"  -> x.v # 0
      [] x.t = "str"  -> Len(x.v) > 0
      [] x.t = "list" -> Len(x.v) > 0
      [] x.t = "dict" -> DOMAIN x.v # {}

\* a or b
py_or(a, b) == IF Truthy(a) THEN a ELSE b

\* isinstance(x, dict) / isinstance(x, str) / isinstance(x, list)
is_dict(x) == x.t = "dict"
is_str(x) == x.t = "str"
is_list(x) == x.t = "list"

\* d.get(k) on a dict d
dict_get(d, k) == IF k \in DOMAIN d.v THEN d.v[k] ELSE JNull

Whitespace == {" ", "\t", "\n"}

\* s.replace(old, new) for one-character old and new
str_replace(s, old, new) == [i \in 1..Len(s) |-> IF s[i] = old THEN new ELSE s[i]]

RECURSIVE lstrip(_)
lstrip(s) == IF Len(s) > 0 /\ s[1] \in Whitespace THEN lstrip(Tail(s)) ELSE s

RECURSIVE rstrip(_)
rstrip(s) ==
    IF Len(s) > 0 /\ s[Len(s)] \in Whitespace THEN rstrip(SubSeq(s, 1, Len(s) - 1)) ELSE s

\* s.strip()
strip(s) == rstrip(lstrip(s))

RECURSIVE split_rec(_, _, _)
split_rec(s, cur, acc) ==
    IF Len(s) = 0
    THEN IF Len(cur) = 0 THEN acc ELSE Append(acc, cur)
    ELSE IF s[1] \in Whitespace
         THEN split_rec(Tail(s), <<>>, IF Len(cur) = 0 THEN acc ELSE Append(acc, cur))
         ELSE split_rec(Tail(s), Append(cur, s[1]), acc)

\* s.split(): the maximal runs of non-whitespace characters
split(s) == split_rec(s, <<>>, <<>>)

RECURSIVE join(_, _)
\* sep.join(parts)
join(sep, parts) ==
    IF Len(parts) = 0 THEN <<>>
    ELSE IF Len(parts) = 1 THEN parts[1]
    ELSE parts[1] \o sep \o join(sep, Tail(parts))

Digits == <<"0", "1", "2", "3", "4", "5", "6", "7", "8", "9">>

RECURSIVE nat_str(_)
nat_str(n) == IF n < 10 THEN <<Digits[n + 1]>> ELSE nat_str(n \div 10) \o <<Digits[(n % 10) + 1]>>

\* str(x) for the element types a JSON host-name list is given here
py_str(x) ==
    CASE x.t = "str"  -> x.v
      [] x.t = "int"  -> IF x.v < 0 THEN <<"-">> \o nat_str(-x.v) ELSE nat_str(x.v)
      [] x.t = "null" -> <<"N", "o", "n", "e">>
      [] x.t = "bool" -> IF x.v THEN <<"T", "r", "u", "e">> ELSE <<"F", "a", "l", "s", "e">>

----------------------------------------------------------------------------
(* Record normalizer *)

\* the default of truncate_text's max_length parameter
DefaultMaxLength == 25

\* the length of the "..." marker: value[: max_length - 3] + "..."
EllipsisLength == 3

Ellipsis == <<".", ".", ".">>

\* truncate_text cutting at max_length, leaving no room for the marker
truncate_text_no_room(value, max_length) ==
    IF ~is_str(value) THEN <<>>
    ELSE IF Len(value.v) <= max_length THEN value.v
    ELSE SubSeq(value.v, 1, max_length) \o Ellipsis

truncate_text(value, max_length) ==
    IF ~is_str(value) THEN <<>>
    ELSE IF Len(value.v) <= max_length THEN value.v
    ELSE SubSeq(value.v, 1, max_length - EllipsisLength) \o Ellipsis

\* the comprehension [h.strip() for h in s.replace(",", " ").split() if h.strip()]
split_hosts(s) ==
    LET parts == split(str_replace(s, ",", " "))
        kept == SelectSeq(parts, LAMBDA h : Len(strip(h)) > 0)
    IN  [i \in 1..Len(kept) |-> strip(kept[i])]

\* the nested function extract_hostnames: a list of Python strs
extract_hostnames(container) ==
    IF ~Truthy(container) THEN <<>>
    ELSE LET name_servers == py_or(dict_get(container, "nameServers"), EmptyDict)
         IN  IF ~is_dict(name_servers) THEN <<>>
             ELSE LET hosts == dict_get(name_servers, "hostNames")
                      raw == dict_get(name_servers, "rawText")
                  IN  IF is_list(hosts) THEN [i \in 1..Len(hosts.v) |-> py_str(hosts.v[i])]
                      ELSE IF is_str(hosts) THEN split_hosts(hosts.v)
                      ELSE IF is_str(raw) THEN split_hosts(raw.v)
                      ELSE <<>>

\* normalize_hostnames adding registryData's host names to the primary record's
chosen_hostnames_merged(rec) ==
    extract_hostnames(rec)
        \o (IF is_dict(py_or(dict_get(rec, "registryData"), EmptyDict))
            THEN extract_hostnames(py_or(dict_get(rec, "registryData"), EmptyDict))
            ELSE <<>>)

\* the host names normalize_hostnames settles on, before truncation
chosen_hostnames(rec) ==
    LET primary == extract_hostnames(rec)
        registry_data == py_or(dict_get(rec, "registryData"), EmptyDict)
    IN  IF Len(primary) > 0 THEN primary
        ELSE IF is_dict(registry_data) THEN extract_hostnames(registry_data)
        ELSE primary

\* returns a Python str
normalize_hostnames(rec) ==
    LET hostnames == chosen_hostnames(rec)
        truncated == [i \in 1..Len(hostnames) |->
                         truncate_text(JStr(hostnames[i]), DefaultMaxLength)]
    IN  IF Len(hostnames) = 0 THEN <<>> ELSE join(<<",", " ">>, truncated)

RECURSIVE pick_registry_first(_, _, _)
\* pick looking into registryData before the primary record
pick_registry_first(rec, registry_data, keys) ==
    IF Len(keys) = 0 THEN JNull
    ELSE IF Truthy(dict_get(registry_data, keys[1])) THEN dict_get(registry_data, keys[1])
    ELSE IF Truthy(dict_get(rec, keys[1])) THEN dict_get(rec, keys[1])
    ELSE pick_registry_first(rec, registry_data, Tail(keys))

RECURSIVE pick(_, _, _)
\* the nested function pick(*keys) of extract_domain_information
pick(rec, registry_data, keys) ==
    IF Len(keys) = 0 THEN JNull
    ELSE IF Truthy(dict_get(rec, keys[1])) THEN dict_get(rec, keys[1])
    ELSE IF Truthy(dict_get(registry_data, keys[1])) THEN dict_get(registry_data, keys[1])
    ELSE pick(rec, registry_data, Tail(keys))

\* (record.get("registrar") or {}).get("name") if isinstance(record.get("registrar"), dict) else None
registrar_name(rec) ==
    IF is_dict(dict_get(rec, "registrar"))
    THEN dict_get(py_or(dict_get(rec, "registrar"), EmptyDict), "name")
    ELSE JNull

extract_domain_information(rec) ==
    LET rd == py_or(dict_get(rec, "registryData"), EmptyDict)
        registry_data == IF ~is_dict(rd) THEN EmptyDict ELSE rd
        domain_name == py_or(pick(rec, registry_data, <<"domainName">>), EmptyStr)
        registrar == py_or(py_or(pick(rec, registry_data, <<"registrarName">>),
                                 registrar_name(rec)),
                           EmptyStr)
        created == py_or(pick(rec, registry_data, <<"createdDate">>), EmptyStr)
        expires == py_or(pick(rec, registry_data, <<"expiresDate">>), EmptyStr)
        estimated_age == pick(rec, registry_data, <<"estimatedDomainAge">>)
        hostnames == normalize_hostnames(rec)
    IN  JDict([domainName |-> domain_name,
              registrar |-> registrar,
              registrationDate |-> created,
              expirationDate |-> expires,
              estimatedDomainAge |-> estimated_age,
              hostnames |-> JStr(hostnames)])

\* record.get(k) if isinstance(record.get(k), dict) else {}
sub_object(rec, k) == IF is_dict(dict_get(rec, k)) THEN dict_get(rec, k) ELSE EmptyDict

extract_contact_information(rec) ==
    LET registrant == sub_object(rec, "registrant")
        tech == sub_object(rec, "technicalContact")
        admin == sub_object(rec, "administrativeContact")
    IN  JDict([registrantName |-> py_or(dict_get(registrant, "name"), EmptyStr),
              technicalContactName |-> py_or(dict_get(tech, "name"), EmptyStr),
              administrativeContactName |-> py_or(dict_get(admin, "name"), EmptyStr),
              contactEmail |-> py_or(py_or(dict_get(rec, "contactEmail"),
                                           dict_get(registrant, "email")),
                                     EmptyStr)])

----------------------------------------------------------------------------
(* Inputs of the normalizer: raw records drawn from bounded families *)

\* at most this many scalar slots of a record are set at once
MaxSet == 3

\* at most this many host names in one nameServers field
MaxHosts == 2

\* a host name of n characters without delimiters: "0123456789012..."
NameOfLen(n) == [i \in 1..n |-> Digits[((i - 1) % 10) + 1]]

NsName == <<"n", "s">>

\* the keys extract_domain_information picks, and the output field of each
PickKeys == {"domainName", "registrarName", "createdDate", "expiresDate", "estimatedDomainAge"}

\* values a scalar field may hold on the primary record / inside registryData
PrimaryVals == <<JNull, EmptyStr, JInt(0), JStr(<<"p">>), JInt(7)>>
RegistryVals == <<JNull, EmptyStr, JInt(0), JStr(<<"r">>), JInt(9)>>
RegistrarVals == <<JNull, JStr(<<"x">>), EmptyDict, JDict([name |-> JStr(<<"N">>)]),
                   JDict([name |-> EmptyStr])>>
RegistryShapes == <<JNull, JStr(<<"x">>), EmptyDict, JInt(5), JList(<<>>)>>
NumVals == Len(PrimaryVals)

Slots == ({"p", "r"} \X PickKeys) \cup {<<"p", "registrar">>, <<"p", "registryData">>}

SlotSets ==
    {S \in SUBSET Slots :
        /\ Cardinality(S) <= MaxSet
        /\ ~(<<"p", "registryData">> \in S /\ \E k \in PickKeys : <<"r", k>> \in S)}

\* the record whose set slots are S, slot s holding its f[s]-th value
ScalarRecord(S, f) ==
    LET regKeys == {k \in PickKeys : <<"r", k>> \in S}
        reg == JDict([k \in regKeys |-> RegistryVals[f[<<"r", k>>]]])
        topKeys == {k \in PickKeys \cup {"registrar", "registryData"} : <<"p", k>> \in S}
                       \cup (IF regKeys # {} THEN {"registryData"} ELSE {})
    IN  JDict([k \in topKeys |->
                 IF k = "registryData"
                 THEN IF regKeys # {} THEN reg ELSE RegistryShapes[f[<<"p", k>>]]
                 ELSE IF k = "registrar" THEN RegistrarVals[f[<<"p", k>>]]
                 ELSE PrimaryVals[f[<<"p", k>>]]])

\* a dict with the keys whose value is not "absent"
Absent == [t |-> "absent", v |-> 0]
Obj(keys, val) == JDict([k \in {k \in keys : val[k].t # "absent"} |-> val[k]])

RECURSIVE SeqsUpTo(_, _)
\* the sequences of at most n elements of the sequence cands
SeqsUpTo(cands, n) ==
    IF n = 0 THEN {<<>>}
    ELSE LET shorter == SeqsUpTo(cands, n - 1)
         IN  shorter \cup {Append(l, cands[i]) : l \in shorter, i \in 1..Len(cands)}

\* elements a hostNames list may hold
ListElems == <<JStr(NsName), JStr(NameOfLen(25)), JStr(NameOfLen(26)), JStr(NameOfLen(30)),
               EmptyStr, JInt(12), JNull, JStr(<<"a", " ", "b">>)>>

\* host names a delimited string may hold, and the delimiters between them
TokenNames == <<NsName, NameOfLen(25), NameOfLen(26), NameOfLen(30)>>
Separators == << <<",">>, <<",", " ">>, <<" ", "\t", ",", ",", "\n">> >>

DelimitedStrings ==
    {join(Separators[i], l) : l \in SeqsUpTo(TokenNames, MaxHosts), i \in 1..Len(Separators)}
        \cup {<<" ">> \o join(<<",">>, l) \o <<",", " ">> : l \in SeqsUpTo(TokenNames, MaxHosts)}

\* nameServers values of the primary record
PrimaryNameServers ==
    {Absent, JNull, JStr(<<"x">>), EmptyDict}
        \cup {JDict([hostNames |-> JList(l)]) : l \in SeqsUpTo(ListElems, MaxHosts)}
        \cup {JDict([hostNames |-> JStr(s)]) : s \in DelimitedStrings}
        \cup {JDict([rawText |-> JStr(s)]) : s \in DelimitedStrings}
        \cup {JDict([hostNames |-> h, rawText |-> r]) :
                 h \in {JNull, JInt(5), EmptyStr, JStr(NsName), JList(<<>>), JList(<<JStr(NsName)>>)},
                 r \in {JStr(NameOfLen(3)), JInt(5)}}

\* registryData values that go with them
RegistryWithNameServers ==
    {Absent, JNull, JStr(<<"x">>), EmptyDict,
     JDict([nameServers |-> JNull]),
     JDict([nameServers |-> JDict([hostNames |-> JList(<<JStr(<<"r", "1">>), JStr(NameOfLen(26))>>)])]),
     JDict([nameServers |-> JDict([hostNames |-> JStr(<<"r", "2", ",", " ", "r", "3">>)])]),
     JDict([nameServers |-> JDict([rawText |-> JStr(<<"r", "4", "\n", "r", "4">>)])]),
     JDict([nameServers |-> JDict([hostNames |-> JList(<<>>), rawText |-> JStr(<<"r", "5">>)])])}

HostRecord(ns, rd) == Obj({"nameServers", "registryData"}, [nameServers |-> ns, registryData |-> rd])

\* contact sub-objects and e-mail fields
Registrants ==
    {Absent, JNull, JStr(<<"x">>), EmptyDict,
     JDict([name |-> JStr(<<"R">>)]),
     JDict([name |-> EmptyStr, email |-> JStr(<<"e", "@">>)]),
     JDict([name |-> JStr(<<"R">>), email |-> JStr(<<"e", "@">>)]),
     JDict([name |-> JInt(7), email |-> JInt(5)])}
Contacts == {Absent, JNull, JList(<<>>), EmptyDict, JDict([name |-> JStr(<<"T">>)]), JDict([name |-> JNull])}
Emails == {Absent, JNull, EmptyStr, JStr(<<"c", "@">>), JInt(3)}
RegistryWithContacts ==
    {Absent,
     JDict([registrant |-> JDict([name |-> JStr(<<"Q">>), email |-> JStr(<<"q", "@">>)]),
            technicalContact |-> JDict([name |-> JStr(<<"Q">>)]),
            administrativeContact |-> JDict([name |-> JStr(<<"Q">>)]),
            contactEmail |-> JStr(<<"q", "@">>)])}

ContactRecord(rg, te, ad, em, rd) ==
    Obj({"registrant", "technicalContact", "administrativeContact", "contactEmail", "registryData"},
        [registrant |-> rg, technicalContact |-> te, administrativeContact |-> ad,
         contactEmail |-> em, registryData |-> rd])

NotApplied == [t |-> "none", v |-> 0]

NoRequest == [t |-> "none", v |-> 0]

\* the orchestrator at rest, for the normalizer's specification
OrchIdle ==
    /\ env = NoRequest
    /\ pc = "idle"
    /\ tableExists = FALSE
    /\ table = <<>>
    /\ served = 0
    /\ req = NoRequest
    /\ upstream = NoRequest
    /\ result = NoRequest

NormInit ==
    /\ OrchIdle
    /\ npc = "input"
    /\ out = NotApplied
    /\ \/ \E S \in SlotSets : \E f \in [S -> 1..NumVals] : record = ScalarRecord(S, f)
       \/ \E ns \in PrimaryNameServers, rd \in RegistryWithNameServers : record = HostRecord(ns, rd)
       \/ \E rg \in Registrants, te \in Contacts, ad \in Contacts, em \in Emails,
             rd \in RegistryWithContacts : record = ContactRecord(rg, te, ad, em, rd)

ApplyNormalizeHostnames ==
    /\ npc = "input"
    /\ npc' = "hostnames"
    /\ out' = JStr(normalize_hostnames(record))
    /\ UNCHANGED <<record, ovars>>

ApplyExtractDomain ==
    /\ npc = "input"
    /\ npc' = "domain"
    /\ out' = extract_domain_information(record)
    /\ UNCHANGED <<record, ovars>>

ApplyExtractContact ==
    /\ npc = "input"
    /\ npc' = "contact"
    /\ out' = extract_contact_information(record)
    /\ UNCHANGED <<record, ovars>>

NormNext == ApplyNormalizeHostnames \/ ApplyExtractDomain \/ ApplyExtractContact

SpecNorm == NormInit /\ [][NormNext]_vars

----------------------------------------------------------------------------
(* Logging sink *)

\* a literal message; nothing computes on its text
Msg(m) == [t |-> "msg", v |-> m]

\* os.environ.get(key, default)
get_env(e, key, default) == IF e[key].t = "absent" THEN default ELSE e[key]

IsDigit(c) == \E i \in 1..Len(Digits) : Digits[i] = c

RECURSIVE digits_value(_)
digits_value(s) ==
    IF Len(s) = 0 THEN 0
    ELSE 10 * digits_value(SubSeq(s, 1, Len(s) - 1))
             + (CHOOSE d \in 0..9 : Digits[d + 1] = s[Len(s)])

\* int(s) of a str already stripped: it raises ValueError unless s is a decimal number
int_of_str(s) ==
    IF Len(s) > 0 /\ \A i \in 1..Len(s) : IsDigit(s[i])
    THEN [raised |-> FALSE, value |-> digits_value(s)]
    ELSE [raised |-> TRUE, value |-> 0]

\* int(x) of an int or a str
py_int(x) == IF x.t = "int" THEN [raised |-> FALSE, value |-> x.v] ELSE int_of_str(strip(x.v))

\* the port get_db_config falls back to
DefaultPort == 3306

\* lines 210-212 of get_db_config, port being the outcome of int(...) on line 209
config_with_port(e, port) ==
    IF port.raised THEN [raised |-> TRUE, cfg |-> JNull]
    ELSE IF /\ Truthy(get_env(e, "MYSQL_HOST", JNull))
            /\ Truthy(get_env(e, "MYSQL_USER", JNull))
            /\ Truthy(get_env(e, "MYSQL_DB", JNull))
    THEN [raised |-> FALSE,
          cfg |-> JDict([host |-> get_env(e, "MYSQL_HOST", JNull),
                         user |-> get_env(e, "MYSQL_USER", JNull),
                         passwd |-> py_or(get_env(e, "MYSQL_PASSWORD", JNull), EmptyStr),
                         db |-> get_env(e, "MYSQL_DB", JNull),
                         port |-> JInt(port.value)])]
    ELSE [raised |-> FALSE, cfg |-> JNull]

\* [raised, cfg]: cfg is None when logging is not configured; int(...) is not guarded
get_db_config(e) ==
    IF ~e.MYSQL_AVAILABLE THEN [raised |-> FALSE, cfg |-> JNull]
    ELSE config_with_port(e, py_int(py_or(get_env(e, "MYSQL_PORT", JStr(nat_str(DefaultPort))),
                                          JInt(DefaultPort))))

\* lines 223-229 of get_db_connection, c being what get_db_config did
connection_with_config(c, db) ==
    IF c.raised THEN [raised |-> TRUE, conn |-> FALSE]
    ELSE IF ~Truthy(c.cfg) THEN [raised |-> FALSE, conn |-> FALSE]
    ELSE [raised |-> FALSE, conn |-> db.connectOk]

\* [raised, conn]: conn is whether a connection was returned; db.connectOk is whether
\* MySQLdb.connect succeeds
get_db_connection(e, db) == connection_with_config(get_db_config(e), db)

\* the arguments of one log_lookup call
Call(domain, info_type, http_status, success, registrar) ==
    [domain |-> domain, info_type |-> info_type, http_status |-> http_status,
     success |-> success, registrar |-> registrar]

\* the row the INSERT of log_lookup writes
Row(call) ==
    [domain |-> call.domain, info_type |-> call.info_type, http_status |-> call.http_status,
     success |-> IF call.success THEN 1 ELSE 0, registrar |-> py_or(call.registrar, JNull)]

\* lines 279-298 of log_lookup, c being what get_db_connection did; db.insertOk is
\* whether the INSERT and the commit succeed on an existing table
insert_with_connection(c, db, call) ==
    IF c.raised THEN [raised |-> TRUE, rows |-> <<>>]
    ELSE IF ~c.conn THEN [raised |-> FALSE, rows |-> <<>>]
    ELSE IF db.insertOk /\ db.tableExists THEN [raised |-> FALSE, rows |-> <<Row(call)>>]
    ELSE [raised |-> FALSE, rows |-> <<>>]

\* [raised, rows]: rows are the rows the call inserted
log_lookup(e, db, call) == insert_with_connection(get_db_connection(e, db), db, call)

----------------------------------------------------------------------------
(* Lookup orchestrator *)

UpperCase == <<"A", "B", "C", "D", "E", "F", "G", "H", "I", "J", "K", "L", "M",
               "N", "O", "P", "Q", "R", "S", "T", "U", "V", "W", "X", "Y", "Z">>
LowerCase == <<"a", "b", "c", "d", "e", "f", "g", "h", "i", "j", "k", "l", "m",
               "n", "o", "p", "q", "r", "s", "t", "u", "v", "w", "x", "y", "z">>

\* s.lower()
lower(s) ==
    [i \in 1..Len(s) |->
        IF \E n \in 1..Len(UpperCase) : UpperCase[n] = s[i]
        THEN LowerCase[CHOOSE n \in 1..Len(UpperCase) : UpperCase[n] = s[i]]
        ELSE s[i]]

DomainView == <<"d", "o", "m", "a", "i", "n">>
ContactView == <<"c", "o", "n", "t", "a", "c", "t">>

\* resp.text[:300]
ExcerptLength == 300

excerpt(text) == SubSeq(text, 1, IF Len(text) < ExcerptLength THEN Len(text) ELSE ExcerptLength)

\* how the try block of whois_lookup ends: a return (exc = "none") or an exception
Return(status, body, logs, rows, calls) ==
    [exc |-> "none", status |-> status, body |-> body, logs |-> logs, rows |-> rows,
     calls |-> calls]
Raise(exc, logs, calls) ==
    [exc |-> exc, status |-> 0, body |-> JNull, logs |-> logs, rows |-> <<>>, calls |-> calls]

\* a log_lookup call inside the try block, l being what it did, and the return after it
return_after_log(l, call, status, body) ==
    IF l.raised THEN Raise("ValueError", <<call>>, 1)
    ELSE Return(status, body, <<call>>, l.rows, 1)

log_and_return(e, db, call, status, body) ==
    return_after_log(log_lookup(e, db, call), call, status, body)

\* lines 387/390: the registrar handed to log_lookup
registrar_for_log(info_type, rec, data) ==
    IF info_type = DomainView THEN dict_get(data, "registrar") ELSE registrar_name(rec)

\* lines 385-389: the extractor the view type selects
extract_for(info_type, rec) ==
    IF info_type = DomainView
    THEN extract_domain_information(rec)
    ELSE extract_contact_information(rec)

\* lines 392-396, data being the extractor's result
log_success(e, db, domain, info_type, rec, data) ==
    log_and_return(e, db,
                   Call(domain, info_type, 200, TRUE, registrar_for_log(info_type, rec, data)),
                   200,
                   JDict([domain |-> JStr(domain), type |-> JStr(info_type), data |-> data]))

\* lines 379-396, rec being data.get("WhoisRecord") or {}
handle_record(e, db, domain, info_type, rec) ==
    IF ~Truthy(rec)
    THEN log_and_return(e, db, Call(domain, info_type, 404, FALSE, JNull), 404,
                        JDict([error |-> Msg("Whois record not found for domain")]))
    ELSE IF ~is_dict(rec) THEN Raise("AttributeError", <<>>, 1)
    ELSE log_success(e, db, domain, info_type, rec, extract_for(info_type, rec))

\* lines 360-396: from the provider's answer to the return
after_upstream(e, db, domain, info_type, up) ==
    IF up.kind = "timeout" THEN Raise("Timeout", <<>>, 1)
    ELSE IF up.kind = "connection_error" THEN Raise("ConnectionError", <<>>, 1)
    ELSE IF up.status_code # 200
    THEN log_and_return(e, db, Call(domain, info_type, up.status_code, FALSE, JNull), 502,
                        JDict([error |-> Msg("Upstream whois service error"),
                               status |-> JInt(up.status_code),
                               details |-> JStr(excerpt(up.text))]))
    ELSE IF up.json.t = "invalid" THEN Raise("JSONDecodeError", <<>>, 1)
    ELSE IF ~is_dict(up.json) THEN Raise("AttributeError", <<>>, 1)
    ELSE handle_record(e, db, domain, info_type,
                       py_or(dict_get(up.json, "WhoisRecord"), EmptyDict))

\* lines 337-396, domain and info_type being parsed
validate_and_call(e, db, up, domain, info_type) ==
    IF Len(domain) = 0
    THEN Return(400, JDict([error |-> Msg("Missing 'domain'")]), <<>>, <<>>, 0)
    ELSE IF info_type \notin {DomainView, ContactView}
    THEN Return(400, JDict([error |-> Msg("Invalid 'type'. Use 'domain' or 'contact'")]),
                <<>>, <<>>, 0)
    ELSE IF ~Truthy(get_env(e, "WHOIS_API_KEY", JNull))
    THEN Return(500, JDict([error |-> Msg("Server not configured with WHOIS_API_KEY")]),
                <<>>, <<>>, 0)
    ELSE after_upstream(e, db, domain, info_type, up)

\* lines 333-334: .strip() and .lower() exist on a str only
parse_fields(e, db, up, domain_raw, type_raw) ==
    IF ~is_str(domain_raw) \/ ~is_str(type_raw) THEN Raise("AttributeError", <<>>, 0)
    ELSE validate_and_call(e, db, up, strip(domain_raw.v), lower(strip(type_raw.v)))

\* lines 333-396, payload being request.get_json(silent=True) or {}
parse_payload(e, db, rq, up, payload) ==
    IF ~is_dict(payload) THEN Raise("AttributeError", <<>>, 0)
    ELSE parse_fields(e, db, up,
                      py_or(py_or(dict_get(payload, "domain"), dict_get(rq.args, "domain")),
                            EmptyStr),
                      py_or(py_or(dict_get(payload, "type"), dict_get(rq.args, "type")),
                            EmptyStr))

\* lines 331-396: the try block. rq.body is what get_json(silent=True) returns,
\* rq.args the query parameters
try_block(e, db, rq, up) == parse_payload(e, db, rq, up, py_or(rq.body, EmptyDict))

Responded(status, body, logs, rows, calls) ==
    [kind |-> "response", status |-> status, body |-> body, logCalls |-> logs,
     rows |-> rows, upstreamCalls |-> calls]
Escaped(exc, logs, calls) ==
    [kind |-> "escaped", status |-> 0, body |-> Msg(exc), logCalls |-> logs,
     rows |-> <<>>, upstreamCalls |-> calls]

\* a log_lookup call inside an except clause, l being what it did: an exception
\* raised there leaves whois_lookup
respond_after_log(l, b, call, status, body) ==
    IF l.raised THEN Escaped("ValueError", Append(b.logs, call), b.calls)
    ELSE Responded(status, body, Append(b.logs, call), l.rows, b.calls)

log_and_respond(e, db, b, call, status, body) ==
    respond_after_log(log_lookup(e, db, call), b, call, status, body)

\* lines 398-405: the two except clauses, b being how the try block ended
except_clauses(e, db, rq, b) ==
    IF b.exc = "none" THEN Responded(b.status, b.body, b.logs, b.rows, b.calls)
    ELSE IF b.exc = "Timeout"
    THEN log_and_respond(e, db, b,
                         Call(py_or(dict_get(rq.args, "domain"), EmptyStr).v,
                              py_or(dict_get(rq.args, "type"), EmptyStr).v,
                              504, FALSE, JNull),
                         504, JDict([error |-> Msg("Upstream whois request timed out")]))
    ELSE log_and_respond(e, db, b, Call(<<>>, <<>>, 500, FALSE, JNull), 500,
                         JDict([error |-> Msg("Unexpected server error"),
                                details |-> Msg(b.exc)]))

\* the handler
whois_lookup(e, db, rq, up) == except_clauses(e, db, rq, try_block(e, db, rq, up))

----------------------------------------------------------------------------
(* Inputs of the orchestrator *)

\* at most this many requests are handled
MaxRequests == 1

\* MYSQL_AVAILABLE, MYSQL_HOST and MYSQL_PORT: mysqlclient missing; no host set, with
\* and without a malformed port; a host with no port, an empty, a good and a
\* malformed one
SinkSettings ==
    {<<FALSE, JStr(<<"h">>), JStr(<<"a", "b", "c">>)>>,
     <<TRUE, Absent, Absent>>,
     <<TRUE, Absent, JStr(<<"a", "b", "c">>)>>,
     <<TRUE, JStr(<<"h">>), Absent>>,
     <<TRUE, JStr(<<"h">>), EmptyStr>>,
     <<TRUE, JStr(<<"h">>), JStr(<<"3", "3", "0", "7">>)>>,
     <<TRUE, JStr(<<"h">>), JStr(<<"a", "b", "c">>)>>}

Env(key, sink) ==
    [WHOIS_API_KEY |-> key, MYSQL_AVAILABLE |-> sink[1], MYSQL_HOST |-> sink[2],
     MYSQL_USER |-> JStr(<<"u">>), MYSQL_PASSWORD |-> Absent, MYSQL_DB |-> JStr(<<"d">>),
     MYSQL_PORT |-> sink[3]]

Envs ==
    {Env(JStr(<<"k">>), sink) : sink \in SinkSettings}
        \cup {Env(key, <<TRUE, JStr(<<"h">>), Absent>>) : key \in {Absent, EmptyStr}}

BodyDomains == {Absent, JStr(<<" ">>), JStr(<<" ", "a", ".", "c">>), JInt(7)}
BodyTypes == {Absent, JStr(<<"D", "o", "m", "a", "i", "n", " ">>), JStr(ContactView),
              JStr(<<"x">>), JInt(7)}
Bodies ==
    {JNull, JList(<<JInt(1)>>)}
        \cup {Obj({"domain", "type"}, [domain |-> d, type |-> ty]) :
                 d \in BodyDomains, ty \in BodyTypes}
Args ==
    {Obj({"domain", "type"}, [domain |-> d, type |-> ty]) :
        d \in {Absent, JStr(<<"q", ".", "c">>)},
        ty \in {Absent, JStr(ContactView)}}

Requests == [body : Bodies, args : Args]

Invalid == [t |-> "invalid", v |-> 0]

NameN == JStr(<<"N">>)

\* WhoisRecord objects the provider answers with
ProviderRecords ==
    {JDict([domainName |-> JStr(<<"a", ".", "c">>), registrarName |-> JStr(<<"p">>),
            registrar |-> JDict([name |-> NameN]),
            nameServers |-> JDict([hostNames |-> JList(<<JStr(NsName), JStr(NameOfLen(26))>>)]),
            registrant |-> JDict([name |-> JStr(<<"R">>), email |-> JStr(<<"e", "@">>)])]),
     JDict([registryData |-> JDict([domainName |-> JStr(<<"a", ".", "c">>),
                                    registrarName |-> JStr(<<"r">>)]),
            registrar |-> JDict([name |-> NameN])]),
     JDict([domainName |-> JStr(<<"a", ".", "c">>)]),
     JDict([registrar |-> JStr(<<"x">>), contactEmail |-> JStr(<<"c", "@">>)])}

Response(status_code, text, json) ==
    [kind |-> "response", status_code |-> status_code, text |-> text, json |-> json]

Upstreams ==
    {[kind |-> "timeout", status_code |-> 0, text |-> <<>>, json |-> JNull],
     [kind |-> "connection_error", status_code |-> 0, text |-> <<>>, json |-> JNull],
     Response(503, NameOfLen(5), Invalid),
     Response(404, NameOfLen(ExcerptLength + 1), EmptyDict),
     Response(500, NameOfLen(ExcerptLength), JDict([WhoisRecord |-> JDict([domainName |-> NameN])])),
     Response(200, NameOfLen(5), Invalid),
     Response(200, <<>>, JList(<<>>)),
     Response(200, <<>>, EmptyDict),
     Response(200, <<>>, JDict([WhoisRecord |-> JNull])),
     Response(200, <<>>, JDict([WhoisRecord |-> JStr(<<"x">>)]))}
        \cup {Response(200, <<>>, JDict([WhoisRecord |-> r])) : r \in ProviderRecords}

NotCalled == [kind |-> "not_called", status_code |-> 0, text |-> <<>>, json |-> JNull]

NormIdle ==
    /\ record = EmptyDict
    /\ npc = "idle"
    /\ out = NotApplied

Init ==
    /\ NormIdle
    /\ env \in Envs
    /\ pc \in {"boot", "serving"}
    /\ tableExists \in BOOLEAN
    /\ table = <<>>
    /\ served = 0
    /\ req = NoRequest
    /\ upstream = NotCalled
    /\ result = NoRequest

\* run as __main__: init_db() before app.run(). An exception leaves the process
init_db ==
    /\ pc = "boot"
    /\ \E connectOk \in BOOLEAN, createOk \in BOOLEAN :
          \E c \in {get_db_connection(env, [connectOk |-> connectOk])} :
              IF c.raised
              THEN /\ pc' = "crashed"
                   /\ UNCHANGED tableExists
              ELSE /\ pc' = "serving"
                   /\ tableExists' = (tableExists \/ (c.conn /\ createOk))
    /\ UNCHANGED <<nvars, env, table, served, req, upstream, result>>

\* POST /api/whois: one run of whois_lookup, start to finish
HandleWhoisLookup ==
    /\ pc = "serving"
    /\ served < MaxRequests
    /\ \E rq \in Requests, up \in Upstreams, connectOk \in BOOLEAN, insertOk \in BOOLEAN :
          \E r \in {whois_lookup(env,
                                 [connectOk |-> connectOk, insertOk |-> insertOk,
                                  tableExists |-> tableExists],
                                 rq, up)} :
              /\ req' = rq
              /\ upstream' = IF r.upstreamCalls > 0 THEN up ELSE NotCalled
              /\ result' = r
              /\ table' = table \o r.rows
              /\ served' = served + 1
    /\ UNCHANGED <<nvars, env, pc, tableExists>>

Next == init_db \/ HandleWhoisLookup

Spec == Init /\ [][Next]_vars

----------------------------------------------------------------------------
(* What the specification says of the normalizer, stated on the input record *)

\* a field of a mapping, Absent when the mapping is no mapping or lacks the key
Field(d, k) == IF d.t = "dict" /\ k \in DOMAIN d.v THEN d.v[k] ELSE Absent

\* "present": non-null, non-empty, non-zero
Present(x) ==
    /\ x.t \notin {"absent", "null"}
    /\ x.t = "str" => Len(x.v) # 0
    /\ x.t = "int" => x.v # 0
    /\ x.t = "bool" => x.v
    /\ x.t = "list" => Len(x.v) # 0
    /\ x.t = "dict" => DOMAIN x.v # {}

\* first present wins: the primary record, then registryData, then the default
FirstPresent(rec, k, default) ==
    LET p == Field(rec, k)
        r == Field(Field(rec, "registryData"), k)
    IN  IF Present(p) THEN p ELSE IF Present(r) THEN r ELSE default

ExpectedRegistrar(rec) ==
    LET n == Field(Field(rec, "registrar"), "name")
    IN  FirstPresent(rec, "registrarName", IF Present(n) THEN n ELSE EmptyStr)

IsDelimiter(c) == c = "," \/ c \in Whitespace

\* the maximal delimiter-free runs of s, left to right
Tokens(s) ==
    LET starts == {i \in 1..Len(s) : ~IsDelimiter(s[i]) /\ (i = 1 \/ IsDelimiter(s[i - 1]))}
        start(n) == CHOOSE i \in starts : Cardinality({j \in starts : j < i}) = n - 1
        end(i) == CHOOSE j \in i..Len(s) :
                      /\ \A m \in i..j : ~IsDelimiter(s[m])
                      /\ j = Len(s) \/ IsDelimiter(s[j + 1])
    IN  [n \in 1..Cardinality(starts) |-> SubSeq(s, start(n), end(start(n)))]

\* the host names one container (the record, or its registryData) supplies
HostNamesOf(container) ==
    LET ns == Field(container, "nameServers")
        hosts == Field(ns, "hostNames")
        raw == Field(ns, "rawText")
    IN  IF hosts.t = "list" THEN [i \in 1..Len(hosts.v) |->
                                     IF hosts.v[i].t = "str" THEN hosts.v[i].v ELSE py_str(hosts.v[i])]
        ELSE IF hosts.t = "str" THEN Tokens(hosts.v)
        ELSE IF raw.t = "str" THEN Tokens(raw.v)
        ELSE <<>>

\* a host name of at most 25 characters as it is, a longer one cut to 22 and "..."
ExpectedEntry(h) == IF Len(h) <= 25 THEN h ELSE SubSeq(h, 1, 22) \o <<".", ".", ".">>

RECURSIVE CommaSpaced(_)
CommaSpaced(l) ==
    IF Len(l) = 0 THEN <<>>
    ELSE IF Len(l) = 1 THEN l[1]
    ELSE CommaSpaced(SubSeq(l, 1, Len(l) - 1)) \o <<",", " ">> \o l[Len(l)]

ExpectedHostnames(rec) ==
    LET primary == HostNamesOf(rec)
        hs == IF Len(primary) > 0 THEN primary ELSE HostNamesOf(Field(rec, "registryData"))
    IN  CommaSpaced([i \in 1..Len(hs) |-> ExpectedEntry(hs[i])])

\* C7: for a non-empty host-name list, every entry of normalize_hostnames' output is
\* at most 25 characters: a name of at most 25 characters unchanged, a longer one its
\* first 22 characters and "..."; the entries are joined with ", " in extraction
\* order, none dropped, none reordered.
C7_TruncateAndJoin ==
    npc = "hostnames" =>
        LET hs == chosen_hostnames(record)
            entries == [i \in 1..Len(hs) |-> ExpectedEntry(hs[i])]
        IN  Len(hs) > 0 =>
                /\ \A i \in 1..Len(hs) : Len(entries[i]) <= 25
                /\ out = JStr(CommaSpaced(entries))

\* a 30-character host name followed by a short one has been normalized
C7_Witness ==
    /\ npc = "hostnames"
    /\ LET hs == chosen_hostnames(record)
       IN  /\ Len(hs) = 2
           /\ Len(hs[1]) = 30
           /\ hs[2] = NsName
           /\ out = JStr(SubSeq(hs[1], 1, 22) \o <<".", ".", ".", ",", " ", "n", "s">>)

\* C8: each of domainName, registrar, registrationDate, expirationDate and
\* estimatedDomainAge is the primary record's value when truthy, else registryData's
\* when truthy; registrar then falls back to the primary record's registrar.name;
\* when every tier fails the field is "", estimatedDomainAge None.
C8_FirstPresentWins ==
    npc = "domain" =>
        /\ out.v.domainName = FirstPresent(record, "domainName", EmptyStr)
        /\ out.v.registrar = ExpectedRegistrar(record)
        /\ out.v.registrationDate = FirstPresent(record, "createdDate", EmptyStr)
        /\ out.v.expirationDate = FirstPresent(record, "expiresDate", EmptyStr)
        /\ out.v.estimatedDomainAge = FirstPresent(record, "estimatedDomainAge", JNull)

\* the primary registrarName is present but empty and registryData's is taken
C8_Witness ==
    /\ npc = "domain"
    /\ Field(record, "registrarName") = EmptyStr
    /\ Field(Field(record, "registryData"), "registrarName") = JStr(<<"r">>)
    /\ out.v.registrar = JStr(<<"r">>)

DomainInfoKeys ==
    {"domainName", "registrar", "registrationDate", "expirationDate", "estimatedDomainAge",
     "hostnames"}
ContactInfoKeys ==
    {"registrantName", "technicalContactName", "administrativeContactName", "contactEmail"}

\* the record without its registryData
WithoutRegistryData(rec) == JDict([k \in DOMAIN rec.v \ {"registryData"} |-> rec.v[k]])

\* C9: for every raw record both extractors return every key of DomainInfo (six)
\* respectively ContactInfo (four); every field but estimatedDomainAge is a string;
\* the contact extractor does not read registryData.
C9_AllKeysAllStrings ==
    /\ npc = "domain" =>
           /\ DOMAIN out.v = DomainInfoKeys
           /\ \A k \in DomainInfoKeys \ {"estimatedDomainAge"} : out.v[k].t = "str"
    /\ npc = "contact" =>
           /\ DOMAIN out.v = ContactInfoKeys
           /\ \A k \in ContactInfoKeys : out.v[k].t = "str"
           /\ out = extract_contact_information(WithoutRegistryData(record))

\* C10: the host names are those of the primary record's nameServers (the hostNames
\* sequence, else the hostNames string, else rawText, both split on commas and
\* whitespace); registryData's are taken, the same way, only when the primary record
\* yields none; the two are never mixed; with none at all the result is "".
C10_SourceSelection ==
    npc = "hostnames" => out = JStr(ExpectedHostnames(record))

\* the primary hostNames is an empty string beside a rawText, and registryData's
\* host names are the result
C10_Witness ==
    /\ npc = "hostnames"
    /\ Field(Field(record, "nameServers"), "hostNames") = EmptyStr
    /\ Field(Field(record, "nameServers"), "rawText") = JStr(NameOfLen(3))
    /\ out = JStr(<<"r", "2", ",", " ", "r", "3">>)

----------------------------------------------------------------------------
(* What the specification says of the orchestrator, stated on the request *)

\* s without its leading and trailing whitespace
Trimmed(s) ==
    LET inked == {i \in 1..Len(s) : s[i] \notin Whitespace}
    IN  IF inked = {} THEN <<>>
        ELSE SubSeq(s, CHOOSE i \in inked : \A j \in inked : i <= j,
                       CHOOSE i \in inked : \A j \in inked : j <= i)

IsDomain(x) == x.t = "str" /\ Len(Trimmed(x.v)) > 0
IsViewType(x) == x.t = "str" /\ lower(Trimmed(x.v)) \in {DomainView, ContactView}

\* neither the JSON body nor the query parameters hold a usable domain / view type
NoDomain(rq) == ~IsDomain(Field(rq.body, "domain")) /\ ~IsDomain(Field(rq.args, "domain"))
NoViewType(rq) == ~IsViewType(Field(rq.body, "type")) /\ ~IsViewType(Field(rq.args, "type"))

\* a field of the request: the JSON body's when it holds one, else the query parameter
RequestField(rq, k) == IF Present(Field(rq.body, k)) THEN Field(rq.body, k) ELSE Field(rq.args, k)

\* the domain and view type of a request that passed validation
RequestDomain(rq) == Trimmed(RequestField(rq, "domain").v)
RequestViewType(rq) == lower(Trimmed(RequestField(rq, "type").v))

Handled == served > 0
LogCount == Len(result.logCalls)
Answered(status) == result.kind = "response" /\ result.status = status

UpstreamAnswered == upstream.kind = "response"

\* the provider answered 200 with a non-empty WhoisRecord object
RecordFound ==
    /\ UpstreamAnswered
    /\ upstream.status_code = 200
    /\ Field(upstream.json, "WhoisRecord").t = "dict"
    /\ Present(Field(upstream.json, "WhoisRecord"))

\* get_db_config raises on this configuration
ConfigRaises == get_db_config(env).raised

\* C1: a request makes exactly one log_lookup call when its outcome is UPSTREAM_ERROR,
\* NOT_FOUND, NORMALIZED, TIMEOUT or INTERNAL_ERROR, none when it is a validation
\* failure (400) or a missing credential (500 without details), and never two.
C1_OneLogAttempt ==
    Handled =>
        /\ LogCount <= 1
        /\ upstream.kind # "not_called" => LogCount = 1
        /\ Answered(500) /\ "details" \in DOMAIN result.body.v => LogCount = 1
        /\ Answered(400) => LogCount = 0
        /\ Answered(500) /\ "details" \notin DOMAIN result.body.v => LogCount = 0

\* C1 holds of every request handled under a configuration get_db_config accepts
C1_UnlessConfigRaises == ConfigRaises \/ C1_OneLogAttempt

\* C2: a request with no usable domain (missing, empty, blank, or no string at all) or
\* no usable view type is answered 400, with no call of the provider and no
\* log_lookup call.
C2_InvalidInputRejected ==
    Handled /\ (NoDomain(req) \/ NoViewType(req)) =>
        /\ Answered(400)
        /\ result.upstreamCalls = 0
        /\ LogCount = 0

\* C2 holds of every request whose domain and type fields are strings or missing
C2_UnlessFieldIsNoString ==
    Handled =>
        \/ req.body.t \notin {"null", "dict"}
        \/ Field(req.body, "domain").t \notin {"absent", "str"}
        \/ Field(req.body, "type").t \notin {"absent", "str"}
        \/ C2_InvalidInputRejected

ExpectedData(view, rec) ==
    IF view = DomainView THEN extract_domain_information(rec) ELSE extract_contact_information(rec)

\* the registrar the specification has logged: the domain extractor's own, or the
\* primary record's registrar.name, None without one
ExpectedLoggedRegistrar(view, rec) ==
    IF view = DomainView THEN extract_domain_information(rec).v.registrar
    ELSE IF Field(Field(rec, "registrar"), "name").t = "absent" THEN JNull
    ELSE Field(Field(rec, "registrar"), "name")

\* C3: on a 200 with a non-empty WhoisRecord the handler answers 200 with
\* {domain, type, data}, data the selected extractor's output, and its single log
\* attempt carries the domain, the view type, 200, success and the registrar; success
\* is logged on no other path.
C3_NormalizedAnswer ==
    Handled =>
        /\ RecordFound =>
               /\ Answered(200)
               /\ result.body =
                      JDict([domain |-> JStr(RequestDomain(req)),
                             type |-> JStr(RequestViewType(req)),
                             data |-> ExpectedData(RequestViewType(req),
                                                   upstream.json.v.WhoisRecord)])
               /\ result.logCalls =
                      <<Call(RequestDomain(req), RequestViewType(req), 200, TRUE,
                             ExpectedLoggedRegistrar(RequestViewType(req),
                                                     upstream.json.v.WhoisRecord))>>
        /\ \A i \in 1..LogCount : result.logCalls[i].success => RecordFound /\ i = 1

\* C3 holds of every request handled under a configuration get_db_config accepts
C3_UnlessConfigRaises == ConfigRaises \/ C3_NormalizedAnswer

\* C4: on any provider status other than 200 the handler answers 502 with the
\* provider's status and an excerpt of its body of at most 300 characters, and logs
\* the provider's own status with success = false and the request's domain and view.
C4_UpstreamErrorAnswer ==
    Handled /\ UpstreamAnswered /\ upstream.status_code # 200 =>
        /\ Answered(502)
        /\ result.body.v.status = JInt(upstream.status_code)
        /\ Len(result.body.v.details.v) <= 300
        /\ result.body.v.details.v = SubSeq(upstream.text, 1, Len(result.body.v.details.v))
        /\ result.logCalls =
               <<Call(RequestDomain(req), RequestViewType(req), upstream.status_code, FALSE,
                      JNull)>>

\* C4 holds of every request handled under a configuration get_db_config accepts
C4_UnlessConfigRaises == ConfigRaises \/ C4_UpstreamErrorAnswer

\* C5: on a timeout of the provider the handler answers 504 and makes one log attempt
\* with 504, success = false and the domain and view type parsed from the request,
\* whether they came in the JSON body or in the query parameters.
C5_TimeoutAnswer ==
    Handled /\ upstream.kind = "timeout" =>
        /\ Answered(504)
        /\ result.logCalls =
               <<Call(RequestDomain(req), RequestViewType(req), 504, FALSE, JNull)>>

\* what the code logs on a timeout: the raw query parameters, "" without them
C5_LogsQueryParametersOnly ==
    Handled /\ upstream.kind = "timeout" /\ ~ConfigRaises =>
        /\ Answered(504)
        /\ result.logCalls =
               <<Call(IF Field(req.args, "domain").t = "absent" THEN <<>>
                      ELSE Field(req.args, "domain").v,
                      IF Field(req.args, "type").t = "absent" THEN <<>>
                      ELSE Field(req.args, "type").v,
                      504, FALSE, JNull)>>

HttpStatuses == {200, 400, 404, 500, 502, 504}

\* C6: every request is answered with a JSON body and an explicit status; no
\* exception leaves whois_lookup, and a failure of the logging sink (configuration,
\* connection, insert) neither changes nor prevents the answer.
C6_AlwaysAnswered ==
    Handled =>
        /\ result.kind = "response"
        /\ result.status \in HttpStatuses
        /\ result.body.t = "dict"
        /\ \E r \in {whois_lookup([env EXCEPT !.MYSQL_AVAILABLE = FALSE],
                                  [connectOk |-> TRUE, insertOk |-> TRUE, tableExists |-> TRUE],
                                  req, upstream)} :
               result.status = r.status /\ result.body = r.body

\* C6 holds of every request handled under a configuration get_db_config accepts
C6_UnlessConfigRaises == ConfigRaises \/ C6_AlwaysAnswered

====
